---- MODULE Spec2Model ----
(***************************************************************************)
(* Verification model of the Filecoin workshop application:                *)
(*   - the browser-local progress record kept by useChallengeVerification  *)
(*     and saved on mount by ChallengeSuccessEnhanced;                     *)
(*   - the workshop components and hooks that sequence SDK calls;          *)
(*   - the NFT contracts.                                                  *)
(* Each part has its own specification over the shared variables; the      *)
(* variables of the other parts stay at their initial values.              *)
(***************************************************************************)
EXTENDS Integers, Sequences, FiniteSets, TLC

(***************************************************************************)
(* Bounds of the model.                                                    *)
(***************************************************************************)
\* challenges numbered 1..MaxChallenge can be completed in the model
MaxChallenge == 3
\* calls to completeChallenge made by one event handler before the next render
MaxQueue == 4
\* downloads of NFTDecryptor in flight at the same time
MaxPending == 2
\* mint calls NFTContract executes
MaxMints == 3
\* mintPrivate calls LitEncryptedNFT executes
MaxLitMints == 2
\* challenges completed through the legacy <ChallengeSuccess/>
MaxLegacy == 1
\* deferred saves of recordAttempt pending at the same time
MaxTimers == 1
\* calls to navigateToChallenge made by one event handler before the next render
MaxNavigations == 2
\* downloads of useNFTFile in flight at the same time
MaxDownloads == 2
\* entries of the access address list of EncryptedNFTMinter
MaxAddresses == 1
\* uploads started through useFileUploadEnhanced
MaxUploads == 2
\* datasets of the client
MaxDatasets == 2
\* payments started through usePayment
MaxPayments == 2
\* attempts recorded by one hook instance
MaxAttempts == 2
\* width in bits of the token amounts of the model (uint256 in the program)
UintBits == 4

(***************************************************************************)
(* Generic helpers.                                                        *)
(***************************************************************************)
Range(s) == {s[i] : i \in 1..Len(s)}

\* Array.prototype.includes
Includes(s, x) == \E i \in 1..Len(s) : s[i] = x

(***************************************************************************)
(* types/workshop.types.ts                                                 *)
(***************************************************************************)
ChallengeType ==
  {"TREASURY_MASTER", "STORAGE_SENTINEL", "DATA_GUARDIAN", "NFT_ARCHITECT", "DECRYPTION_EXPERT"}

WORKSHOP_CHALLENGES ==
  << [id |-> "TREASURY_MASTER",   number |-> 1, prerequisites |-> << >>],
     [id |-> "STORAGE_SENTINEL",  number |-> 2, prerequisites |-> <<"TREASURY_MASTER">>],
     [id |-> "DATA_GUARDIAN",     number |-> 3, prerequisites |-> <<"STORAGE_SENTINEL">>],
     [id |-> "NFT_ARCHITECT",     number |-> 4, prerequisites |-> <<"DATA_GUARDIAN">>],
     [id |-> "DECRYPTION_EXPERT", number |-> 5, prerequisites |-> <<"NFT_ARCHITECT">>] >>

\* WORKSHOP_CHALLENGES.find(c => c.id === challengeId)
FindChallenge(challengeId) ==
  LET idx == {i \in 1..Len(WORKSHOP_CHALLENGES) : WORKSHOP_CHALLENGES[i].id = challengeId}
  IN  WORKSHOP_CHALLENGES[CHOOSE i \in idx : \A j \in idx : i <= j]

\* the challenges a participant can reach within the bound
Playable == {WORKSHOP_CHALLENGES[i].id : i \in 1..MaxChallenge}

\* transaction hashes passed as the transactionHash prop; "" is undefined
TxHashes == {"", "0xabc"}

VARIABLES
  \* ---- localStorage -------------------------------------------------
  lsProgress,     \* item "fil-workshop-progress": [present, completedChallenges]
  lsTx,           \* items "challenge-<id>-tx": ChallengeType -> hash, "" when absent
  \* ---- one mounted component using useChallengeVerification ----------
  mounted,        \* "none" | "success" (ChallengeSuccessEnhanced) | "consumer"
  propChallenge,  \* props.challenge.id of ChallengeSuccessEnhanced
  propTx,         \* props.transactionHash of ChallengeSuccessEnhanced
  hookState,      \* the reducer state: [completedChallenges, attempts, isLoading, isSaving]
  queue,          \* actions dispatched and not yet reduced (applied at the next render)
  captured,       \* state.progress.completedChallenges closed over by the last render
  effects,        \* passive effects scheduled by the last render: subset of {"load","save"}
  callLog,        \* the last completeChallenge call: argument, record before, record after
  \* ---- NFTDecryptor ---------------------------------------------------
  variant,        \* "challenge" (components/workshop) | "solution" (workshop-solutions)
  address,        \* useAccount().address: [defined, chars]
  selectedNFT,    \* useState<NFTTokenDetails | null>: [set, nft]
  isDecrypting,   \* useState(false)
  decryptedFile,  \* useState<File | null>: [set, commp] (the piece the bytes came from)
  decryptError,   \* useState<string | null>: "" is null
  pending,        \* downloadEncryptedFile calls in flight: sequence of commp
  \* ---- FileUpload, NFTMinter, EncryptedNFTMinter: file selection --------
  selectedFile,   \* per component, useState<File | null>: the file's size, NoFileSize for null
  alertMsg,       \* the message of the alert the last handleFileSelect raised, "" if none
  wallet,         \* useAccount().address of the minting components, "" when disconnected
  \* ---- NFTContract.sol ---------------------------------------------------
  tokenIdCounter, \* uint256 _tokenIdCounter
  tokenURIs,      \* mapping(uint256 => string) _tokenURIs
  owners,         \* ERC721 owner of each token id, "" for the zero address
  mintLog,        \* the mint calls that were executed, in order: [caller, cid]
  \* ---- NFTMinter ---------------------------------------------------------
  nPc,            \* handleUploadAndMint: "idle" | "uploading" | "minting"
  nPieceCid,      \* useState<string | null>: "" is null
  nMinted,        \* useState<boolean>(false): mintedTokenId
  \* ---- LitEncryptedNFT and the encrypted files ---------------------------
  litTokens,      \* the tokens of LitEncryptedNFT, token id = index: [tokenPieceCid, access, owner]
  encFiles,       \* the encrypted uploads, piece CID = index: the token id of the access condition
  \* ---- EncryptedNFTMinter ------------------------------------------------
  mintType,       \* useState<"public" | "private">("public")
  accessAddresses,\* useState<string[]>([""])
  mPc,            \* handleEncryptUploadAndMint: "idle" | "encrypting" | "minting"
  mClosure,       \* what the running handleEncryptUploadAndMint holds: the accessAddresses and
                  \* mintType of the render it closed over, and its local const pieceCid
  mPieceCid,      \* useState<string | null>: 0 is null
  mintedTokenId,  \* useState<string | null>: "" is null
  lastMint,       \* the last mintPrivate the component had executed
  \* ---- useFileUploadEnhanced ---------------------------------------------
  progressState,  \* useState<UploadProgressState>: [status, progress]
  cancelTokenRef, \* useRef<AbortController | null>: "null" | "live" | "aborted"
  upPc,           \* the running mutationFn: "none" | "converting" | "sleeping" |
                  \* "processing" | "resolved" | "rejected"
  upLocal,        \* its loop variable progress, and the progressState.progress it closed over
  uploadAttempts, \* the attempts handed to recordAttempt: sequence of success flags
  cancelled,      \* cancelUpload was called while the current upload was in progress
  \* ---- solution useDatasets ----------------------------------------------
  dsPc,           \* queryFn: "idle" | "lists" | "providers" | "details" | "success" | "error"
  dsLists,        \* what step 3 fetched: [providerIds, datasets]
  provOut,        \* per approved provider id: "pending" | "skipped" | "ok" | "okNoUrl" | "failed"
  detOut,         \* per dataset, the PDP detail fetch: "pending" | "ok" | "failed"
  dsResult,       \* the datasets the query returned
  \* ---- solution usePayment -----------------------------------------------
  payPc,          \* mutationFn: "idle" | "preparing" | "sending" | "waiting" | "done" | "failed"
  payLocal,       \* its locals: depositAmount, fee, amount, allowance, balance (read: the
                  \* awaits of steps 3 and 4 resolved), the transaction it sends or waits for
  txLog,          \* the transactions the running payment has sent: [kind, confirmed]
  success,        \* useState<boolean>(false)
  payTxHash,      \* useState<string | null>(null) transactionHash: 0 is null, else the hash
  payCount,       \* payments started
  payStatus,      \* useState<string>("") status: [icon, text], icon "" for the empty string
  \* ---- useChallengeVerification: attempts and flags -----------------------
  lsAttempts,     \* item "fil-workshop-progress-attempts": [present, attempts]
  lsLegacyTx,     \* items "challenge-<number>-tx" of the legacy API: number -> hash, "" when absent
  resetResolved,  \* TRUE while resetProgress is the last call made to either progress API
  \* ---- <ProgressIndicator/> inside ChallengeSuccessEnhanced -----------
  indicator,      \* reducer state of its own useChallengeVerification instance
  indicatorQueue, \* actions dispatched to that instance and not yet reduced
  \* ---- <WorkshopProvider/> ------------------------------------------
  ctx,            \* workshopReducer state: [currentChallenge, error], "" is undefined
  ctxQueue,       \* WorkshopActions dispatched and not yet reduced
  ctxEffect,      \* TRUE while the effect on challengeVerification.progress is pending
  lastNav,        \* the last navigateToChallenge call: [called, challengeId, completed, before, after]
  \* ---- useNFTFile(commp, filename) ----------------------------------
  commp,          \* the commp argument of the last render, 0 is ""
  fileData,       \* [file, isLoading, error]: file is the commp it was downloaded for, 0 is null
  downloads,      \* commp of every fetchFile() in flight, in the order they were started
  timers,         \* setTimeout callbacks of recordAttempt not yet run: the lists they will store
  lastValidation  \* what the last validateFlag call resolved with: [called, challengeId, flag, valid, error]

progressVars ==
  <<lsProgress, lsTx, mounted, propChallenge, propTx, hookState, queue, captured, effects, callLog>>

decryptVars ==
  <<variant, address, selectedNFT, isDecrypting, decryptedFile, decryptError, pending>>

selectVars == <<selectedFile, alertMsg>>

contractVars == <<tokenIdCounter, tokenURIs, owners, mintLog>>

nftMinterVars == <<nPc, nPieceCid, nMinted>>

litVars == <<litTokens, encFiles>>

encMinterVars == <<mintType, accessAddresses, mPc, mClosure, mPieceCid, mintedTokenId, lastMint>>

uploadVars == <<progressState, cancelTokenRef, upPc, upLocal, uploadAttempts, cancelled>>

datasetVars == <<dsPc, dsLists, provOut, detOut, dsResult>>

attemptVars == <<lsAttempts, lsLegacyTx, resetResolved, timers, lastValidation>>

contextVars == <<ctx, ctxQueue, ctxEffect, lastNav>>

nftFileVars == <<commp, fileData, downloads>>

viewVars == <<indicator, indicatorQueue, contextVars, nftFileVars>>

paymentVars == <<payPc, payLocal, txLog, success, payTxHash, payCount, payStatus>>

vars == <<progressVars, decryptVars, selectVars, wallet, contractVars, nftMinterVars,
          litVars, encMinterVars, uploadVars, datasetVars, paymentVars, attemptVars, viewVars>>

(***************************************************************************)
(* hooks/workshop/useChallengeVerification.ts                              *)
(***************************************************************************)
\* progressStorage default value and the hook's initial reducer state
EmptyProgress == << >>

NoRecord == [present |-> FALSE, completedChallenges |-> EmptyProgress]

\* progressStorage.get(): the stored record, or the default when there is none
ProgressStorageGet == IF lsProgress.present THEN lsProgress.completedChallenges ELSE EmptyProgress

InitialHookState ==
  [completedChallenges |-> EmptyProgress, attempts |-> << >>, isLoading |-> TRUE, isSaving |-> FALSE]

\* challengeVerificationReducer
challengeVerificationReducer(state, action) ==
  CASE action.type = "LOAD_COMPLETE" ->
         [state EXCEPT !.completedChallenges = action.completedChallenges,
                       !.attempts = action.attempts, !.isLoading = FALSE]
    [] action.type = "START_SAVE" ->
         [state EXCEPT !.isSaving = TRUE]
    [] action.type = "SAVE_COMPLETE" ->
         [state EXCEPT !.completedChallenges = action.completedChallenges, !.isSaving = FALSE]
    [] action.type = "RECORD_ATTEMPT" ->
         [state EXCEPT !.attempts = state.attempts \o action.attempts]
    [] action.type = "CLEAR_ERROR" -> state
    [] action.type = "RESET_PROGRESS" ->
         [state EXCEPT !.completedChallenges = EmptyProgress, !.attempts = << >>,
                       !.isSaving = FALSE]

\* the reducer applied to the queued actions in dispatch order
RECURSIVE Reduce(_, _)
Reduce(state, q) ==
  IF q = << >> THEN state ELSE Reduce(challengeVerificationReducer(state, Head(q)), Tail(q))

\* an action that installs a new state.progress object (a new identity for useCallback's deps)
ReplacesProgress(action) == action.type \in {"LOAD_COMPLETE", "SAVE_COMPLETE", "RESET_PROGRESS"}

\* completeChallenge: updatedProgress.completedChallenges computed from the closed-over progress
UpdatedProgress(closed, challengeId) ==
  IF Includes(closed, challengeId) THEN closed ELSE Append(closed, challengeId)

\* completeChallenge(challengeId, transactionHash) run with the closure of the last render:
\* the values of localStorage, the dispatch queue and the call log after the call
CompleteChallengeResult(ls, tx, q, closed, challengeId, transactionHash) ==
  LET updated == UpdatedProgress(closed, challengeId)
      before  == IF ls.present THEN Range(ls.completedChallenges) ELSE {}
  IN  [ ls    |-> [present |-> TRUE, completedChallenges |-> updated],
        tx    |-> IF transactionHash # "" THEN [tx EXCEPT ![challengeId] = transactionHash] ELSE tx,
        queue |-> q \o << [type |-> "START_SAVE", completedChallenges |-> EmptyProgress,
                           attempts |-> << >>],
                          [type |-> "SAVE_COMPLETE", completedChallenges |-> updated,
                           attempts |-> << >>] >>,
        log   |-> [called |-> TRUE, challengeId |-> challengeId,
                   before |-> before, after |-> Range(updated)] ]

NoCall == [called |-> FALSE, challengeId |-> "TREASURY_MASTER", before |-> {}, after |-> {}]

(***************************************************************************)
(* Mounting: the first render with the initial reducer state.              *)
(***************************************************************************)
\* <ChallengeSuccessEnhanced challenge={c} transactionHash={h}/> is mounted
MountSuccess(c, h) ==
  /\ mounted = "none"
  /\ mounted' = "success"
  /\ propChallenge' = c
  /\ propTx' = h
  /\ hookState' = InitialHookState
  /\ queue' = << >>
  /\ captured' = EmptyProgress
  /\ effects' = {"load", "save"}
  /\ UNCHANGED <<lsProgress, lsTx, callLog>>

\* a component that uses the hook from its event handlers is mounted
MountConsumer ==
  /\ mounted = "none"
  /\ mounted' = "consumer"
  /\ hookState' = InitialHookState
  /\ queue' = << >>
  /\ captured' = EmptyProgress
  /\ effects' = {"load"}
  /\ UNCHANGED <<lsProgress, lsTx, propChallenge, propTx, callLog>>

Unmount ==
  /\ mounted # "none"
  /\ mounted' = "none"
  /\ hookState' = InitialHookState
  /\ queue' = << >>
  /\ captured' = EmptyProgress
  /\ effects' = {}
  /\ UNCHANGED <<lsProgress, lsTx, propChallenge, propTx, callLog>>

(***************************************************************************)
(* The passive effects of one commit run back to back, in declaration      *)
(* order: the hook's load effect, then the component's save effect.        *)
(***************************************************************************)
FlushEffects ==
  /\ mounted # "none"
  /\ effects # {}
  /\ LET loaded == IF "load" \in effects
                   THEN << [type |-> "LOAD_COMPLETE", completedChallenges |-> ProgressStorageGet,
                            attempts |-> IF lsAttempts.present THEN lsAttempts.attempts
                                         ELSE << >>] >>
                   ELSE << >>
     IN  IF "save" \in effects
         THEN LET r == CompleteChallengeResult(lsProgress, lsTx, queue \o loaded,
                                               captured, propChallenge, propTx)
              IN  /\ lsProgress' = r.ls
                  /\ lsTx' = r.tx
                  /\ queue' = r.queue
                  /\ callLog' = r.log
         ELSE /\ queue' = queue \o loaded
              /\ UNCHANGED <<lsProgress, lsTx, callLog>>
  /\ effects' = {}
  /\ UNCHANGED <<mounted, propChallenge, propTx, hookState, captured>>

(***************************************************************************)
(* Re-render: the queued actions are reduced; completeChallenge is         *)
(* re-created when state.progress is a new object, which re-triggers the   *)
(* save effect of ChallengeSuccessEnhanced (deps: completeChallenge).      *)
(***************************************************************************)
Render ==
  /\ mounted # "none"
  /\ queue # << >>
  /\ effects = {}
  /\ hookState' = Reduce(hookState, queue)
  /\ captured' = hookState'.completedChallenges
  /\ effects' = IF mounted = "success" /\ \E i \in 1..Len(queue) : ReplacesProgress(queue[i])
                THEN {"save"} ELSE {}
  /\ queue' = << >>
  /\ UNCHANGED <<lsProgress, lsTx, mounted, propChallenge, propTx, callLog>>

(***************************************************************************)
(* Event handlers of a consumer component.                                 *)
(***************************************************************************)
\* a handler calls completeChallenge(c, h) with the callback of the last render
HandlerComplete(c, h) ==
  /\ mounted = "consumer"
  /\ effects = {}
  /\ Len(queue) + 2 <= MaxQueue
  /\ LET r == CompleteChallengeResult(lsProgress, lsTx, queue, captured, c, h)
     IN  /\ lsProgress' = r.ls
         /\ lsTx' = r.tx
         /\ queue' = r.queue
         /\ callLog' = r.log
  /\ UNCHANGED <<mounted, propChallenge, propTx, hookState, captured, effects>>

(***************************************************************************)
(* Specification of the progress record.                                   *)
(***************************************************************************)
ProgressInit ==
  /\ lsProgress = NoRecord
  /\ lsTx = [c \in ChallengeType |-> ""]
  /\ mounted = "none"
  /\ propChallenge = "TREASURY_MASTER"
  /\ propTx = ""
  /\ hookState = InitialHookState
  /\ queue = << >>
  /\ captured = EmptyProgress
  /\ effects = {}
  /\ callLog = NoCall

ProgressNext ==
  \/ \E c \in Playable, h \in TxHashes : MountSuccess(c, h)
  \/ MountConsumer
  \/ Unmount
  \/ FlushEffects
  \/ Render
  \/ \E c \in Playable, h \in TxHashes : HandlerComplete(c, h)

(***************************************************************************)
(* ChallengeSuccessEnhanced on its own: one mount with fixed props over    *)
(* any progress record earlier sessions can have left in localStorage.     *)
(* React runs scheduled effects and re-renders, hence the weak fairness.   *)
(***************************************************************************)
\* the records completeChallenge can have stored: lists without duplicates
StoredRecords ==
  {NoRecord} \cup
  { [present |-> TRUE, completedChallenges |-> s] :
      s \in { t \in UNION {[1..n -> Playable] : n \in 0..MaxChallenge} :
                \A i, j \in 1..Len(t) : i # j => t[i] # t[j] } }

SaveInit ==
  /\ lsProgress \in StoredRecords
  /\ lsTx = [c \in ChallengeType |-> ""]
  /\ mounted = "none"
  /\ propChallenge = "TREASURY_MASTER"
  /\ propTx = ""
  /\ hookState = InitialHookState
  /\ queue = << >>
  /\ captured = EmptyProgress
  /\ effects = {}
  /\ callLog = NoCall

SaveNext ==
  \/ \E c \in Playable, h \in TxHashes : MountSuccess(c, h)
  \/ FlushEffects
  \/ Render

(***************************************************************************)
(* components/workshop/NFTDecryptor.tsx and                                *)
(* workshop-solutions/components/NFTDecryptor.solution.tsx                 *)
(***************************************************************************)
\* String.prototype.toLowerCase on one character of an address
LowerChar(ch) ==
  CASE ch = "A" -> "a"
    [] ch = "B" -> "b"
    [] ch = "C" -> "c"
    [] OTHER -> ch

\* x?.toLowerCase() on an optional string [defined, chars]: undefined stays undefined
ToLowerCase(x) ==
  IF x.defined THEN [defined |-> TRUE, chars |-> [i \in DOMAIN x.chars |-> LowerChar(x.chars[i])]]
  ELSE x

Undefined == [defined |-> FALSE, chars |-> << >>]

Str(chars) == [defined |-> TRUE, chars |-> chars]

\* !x for an optional string: undefined or ""
Falsy(x) == ~x.defined \/ x.chars = << >>

\* wallet addresses and NFT owners, in the checksum (mixed) and lower case forms
\* wallets and contracts report them in
AddressStrings == {Str(<<"a", "B">>), Str(<<"a", "b">>), Str(<<"A", "B">>), Str(<<"c", "B">>)}

\* piece CIDs of the encrypted files
PieceCid(tokenId) == IF tokenId = 1 THEN "bafk1" ELSE "bafk2"

\* NFTTokenDetails as useAllEncryptedNFTs returns them
NFTs ==
  { [tokenId |-> t, tokenPieceCid |-> PieceCid(t), hasAccess |-> h, owner |-> o] :
      t \in 1..2, h \in BOOLEAN, o \in AddressStrings \cup {Undefined} }

NoNFT == [set |-> FALSE, nft |-> [tokenId |-> 1, tokenPieceCid |-> "bafk1",
                                   hasAccess |-> FALSE, owner |-> Undefined]]

NoFile == [set |-> FALSE, commp |-> ""]

\* the guard of handleDecrypt
IsOwner(nft, addr) == ToLowerCase(nft.owner) = ToLowerCase(addr)

\* the guard without the check of the hasAccess flag
MayDecrypt_NoAccessCheck(nft, addr) == ~(Falsy(addr) \/ ~IsOwner(nft, addr))

MayDecrypt(nft, addr) == ~(Falsy(addr) \/ ~nft.hasAccess \/ ~IsOwner(nft, addr))

\* useAccount(): the wallet connects, switches account or disconnects
SetAccount(a) ==
  /\ address # a
  /\ address' = a
  /\ UNCHANGED <<variant, selectedNFT, isDecrypting, decryptedFile, decryptError, pending>>

\* handleDecrypt(nft) up to its await of downloadEncryptedFile
HandleDecrypt(nft) ==
  /\ Len(pending) < MaxPending
  /\ IF MayDecrypt(nft, address)
     THEN /\ isDecrypting' = TRUE
          /\ decryptError' = ""
          /\ selectedNFT' = [set |-> TRUE, nft |-> nft]
          /\ pending' = Append(pending, nft.tokenPieceCid)
          /\ UNCHANGED <<variant, address, decryptedFile>>
     ELSE /\ decryptError' = IF variant = "solution" THEN "Access denied" ELSE decryptError
          /\ UNCHANGED <<variant, address, selectedNFT, isDecrypting, decryptedFile, pending>>

\* the download of pending[i] resolves: setDecryptedFile(file), finally setIsDecrypting(false)
DownloadResolved(i) ==
  /\ i \in 1..Len(pending)
  /\ decryptedFile' = [set |-> TRUE, commp |-> pending[i]]
  /\ isDecrypting' = FALSE
  /\ pending' = SubSeq(pending, 1, i - 1) \o SubSeq(pending, i + 1, Len(pending))
  /\ UNCHANGED <<variant, address, selectedNFT, decryptError>>

\* the download of pending[i] rejects: setDecryptError(message), finally setIsDecrypting(false)
DownloadRejected(i) ==
  /\ i \in 1..Len(pending)
  /\ decryptError' = "Failed to decrypt NFT"
  /\ isDecrypting' = FALSE
  /\ pending' = SubSeq(pending, 1, i - 1) \o SubSeq(pending, i + 1, Len(pending))
  /\ UNCHANGED <<variant, address, selectedNFT, decryptedFile>>

\* handleReset
HandleReset ==
  /\ selectedNFT' = NoNFT
  /\ decryptedFile' = NoFile
  /\ decryptError' = ""
  /\ UNCHANGED <<variant, address, isDecrypting, pending>>

DecryptIdle ==
  /\ address = Undefined
  /\ selectedNFT = NoNFT
  /\ isDecrypting = FALSE
  /\ decryptedFile = NoFile
  /\ decryptError = ""
  /\ pending = << >>

DecryptInit ==
  /\ variant \in {"challenge", "solution"}
  /\ DecryptIdle

DecryptNext ==
  \/ \E a \in AddressStrings \cup {Undefined} : SetAccount(a)
  \/ \E nft \in NFTs : HandleDecrypt(nft)
  \/ \E i \in 1..MaxPending : DownloadResolved(i)
  \/ \E i \in 1..MaxPending : DownloadRejected(i)
  \/ HandleReset

(***************************************************************************)
(* File selection of FileUpload, NFTMinter and EncryptedNFTMinter.         *)
(***************************************************************************)
Components == {"FileUpload", "NFTMinter", "EncryptedNFTMinter"}

\* the limit in handleFileSelect: 100 * 1024 * 1024 bytes
SizeLimit == 104857600

NoFileSize == -1

\* sizes of the files a user picks, around the limit
FileSizes == {0, 1, SizeLimit - 1, SizeLimit, SizeLimit + 1}

\* handleFileSelect: the test that rejects a file
TooLarge(size) == size > SizeLimit

\* handleFileSelect(files) with files[0] of the given size, in one of the components;
\* the minters also reset their pieceCid and mintedTokenId
HandleFileSelect(comp, size) ==
  IF TooLarge(size)
  THEN /\ alertMsg' = "File size must be less than 100MB"
       /\ UNCHANGED <<selectedFile, nPieceCid, nMinted, mPieceCid, mintedTokenId>>
  ELSE /\ selectedFile' = [selectedFile EXCEPT ![comp] = size]
       /\ alertMsg' = ""
       /\ IF comp = "NFTMinter"
          THEN nPieceCid' = "" /\ nMinted' = FALSE
          ELSE UNCHANGED <<nPieceCid, nMinted>>
       /\ IF comp = "EncryptedNFTMinter"
          THEN mPieceCid' = 0 /\ mintedTokenId' = ""
          ELSE UNCHANGED <<mPieceCid, mintedTokenId>>

\* FileUpload.handleRetry / NFTMinter.handleRetry: setSelectedFile(null)
ClearSelection(comp) ==
  /\ selectedFile[comp] # NoFileSize
  /\ selectedFile' = [selectedFile EXCEPT ![comp] = NoFileSize]
  /\ UNCHANGED alertMsg

SelectInit ==
  /\ selectedFile = [c \in Components |-> NoFileSize]
  /\ alertMsg = ""

(***************************************************************************)
(* hardhat/contracts/NFTContract.sol                                       *)
(***************************************************************************)
Accounts == {"0xA", "0xB"}

TokenIds == 1..MaxMints

\* mint that stores the content identifier under the counter before its increment
NFTContractMint_StaleId(caller, cid) ==
  LET tokenId == tokenIdCounter + 1
  IN  /\ tokenIdCounter' = tokenId
      /\ owners' = [owners EXCEPT ![tokenId] = caller]
      /\ tokenURIs' = [t \in TokenIds |-> IF t = tokenIdCounter THEN cid ELSE tokenURIs[t]]

\* mint(storacha_cid) called by msg.sender = caller
NFTContractMint(caller, cid) ==
  LET tokenId == tokenIdCounter + 1
  IN  /\ tokenIdCounter' = tokenId
      /\ owners' = [owners EXCEPT ![tokenId] = caller]
      /\ tokenURIs' = [tokenURIs EXCEPT ![tokenId] = cid]

\* tokenURI(tokenId)
tokenURI(tokenId) == tokenURIs[tokenId]

\* getTotalSupply()
getTotalSupply == tokenIdCounter

\* a mint transaction sent to the contract from any account
DirectMint(caller, cid) ==
  /\ tokenIdCounter < MaxMints
  /\ NFTContractMint(caller, cid)
  /\ mintLog' = Append(mintLog, [caller |-> caller, cid |-> cid])
  /\ UNCHANGED <<wallet, selectVars, nftMinterVars, mPieceCid, mintedTokenId>>

\* ERC721 transferFrom by the owner of the token
Transfer(tokenId, to) ==
  /\ tokenId \in 1..tokenIdCounter
  /\ owners[tokenId] # to
  /\ owners' = [owners EXCEPT ![tokenId] = to]
  /\ UNCHANGED <<tokenIdCounter, tokenURIs, mintLog, wallet, selectVars, nftMinterVars,
                 mPieceCid, mintedTokenId>>

ContractInit ==
  /\ tokenIdCounter = 0
  /\ tokenURIs = [t \in TokenIds |-> ""]
  /\ owners = [t \in TokenIds |-> ""]
  /\ mintLog = << >>

(***************************************************************************)
(* NFTMinter: upload the selected file, then mint its piece CID.           *)
(***************************************************************************)
\* the wallet connects or disconnects
SetWallet(a) ==
  /\ wallet # a
  /\ wallet' = a

\* handleUploadAndMint up to the await of uploadPieceCid(selectedFile)
NFTMinterStart ==
  /\ nPc = "idle"
  /\ selectedFile["NFTMinter"] # NoFileSize
  /\ wallet # ""
  /\ nPc' = "uploading"
  /\ UNCHANGED <<nPieceCid, nMinted, wallet, selectVars, contractVars, mPieceCid, mintedTokenId>>

\* the upload resolves with a piece CID: setPieceCid, then mintNFT is awaited
NFTMinterUploaded(cid) ==
  /\ nPc = "uploading"
  /\ nPc' = "minting"
  /\ nPieceCid' = cid
  /\ UNCHANGED <<nMinted, wallet, selectVars, contractVars, mPieceCid, mintedTokenId>>

\* the upload or the mint transaction fails: the catch block only logs
NFTMinterFailed ==
  /\ nPc \in {"uploading", "minting"}
  /\ nPc' = "idle"
  /\ UNCHANGED <<nPieceCid, nMinted, wallet, selectVars, contractVars, mPieceCid, mintedTokenId>>

\* the mint transaction is executed for the connected account: setMintedTokenId(true)
NFTMinterMinted ==
  /\ nPc = "minting"
  /\ wallet # ""
  /\ tokenIdCounter < MaxMints
  /\ NFTContractMint(wallet, nPieceCid)
  /\ mintLog' = Append(mintLog, [caller |-> wallet, cid |-> nPieceCid])
  /\ nPc' = "idle"
  /\ nMinted' = TRUE
  /\ UNCHANGED <<nPieceCid, wallet, selectVars, mPieceCid, mintedTokenId>>

\* handleRetry of NFTMinter
NFTMinterRetry ==
  /\ nPc = "idle"
  /\ ClearSelection("NFTMinter")
  /\ nPieceCid' = ""
  /\ nMinted' = FALSE
  /\ UNCHANGED <<nPc, wallet, contractVars, mPieceCid, mintedTokenId>>

NFTMinterInit ==
  /\ nPc = "idle"
  /\ nPieceCid = ""
  /\ nMinted = FALSE

NFTNext ==
  \/ \E a \in Accounts \cup {""} :
       SetWallet(a) /\ UNCHANGED <<selectVars, contractVars, nftMinterVars, mPieceCid, mintedTokenId>>
  \/ \E size \in {1, SizeLimit + 1} :
       HandleFileSelect("NFTMinter", size) /\ UNCHANGED <<nPc, wallet, contractVars>>
  \/ NFTMinterStart
  \/ \E t \in 1..2 : NFTMinterUploaded(PieceCid(t))
  \/ NFTMinterFailed
  \/ NFTMinterMinted
  \/ NFTMinterRetry
  \/ \E a \in Accounts, t \in 1..2 : DirectMint(a, PieceCid(t))
  \/ \E t \in TokenIds, a \in Accounts : Transfer(t, a)

SelectNext ==
  \/ \E comp \in Components, size \in FileSizes :
       HandleFileSelect(comp, size) /\ UNCHANGED <<nPc, wallet, contractVars>>
  \/ \E comp \in Components :
       ClearSelection(comp)
       /\ UNCHANGED <<wallet, contractVars, nftMinterVars, mPieceCid, mintedTokenId>>

(***************************************************************************)
(* LitEncryptedNFT (its Solidity source is not part of the sources; the    *)
(* contract is modelled from the calls the front end makes and from the    *)
(* README), the Lit access condition, and EncryptedNFTMinter.              *)
(***************************************************************************)
\* mintPrivate(pieceCid, accessAddresses) called by caller: the next 1-indexed token id
mintPrivate(caller, cid, addrs) ==
  litTokens' = Append(litTokens, [tokenPieceCid |-> cid, access |-> Range(addrs), owner |-> caller])

\* hasAccess(tokenId, account) of LitEncryptedNFT
hasAccess(tokenId, account) ==
  /\ tokenId \in 1..Len(litTokens)
  /\ account \in litTokens[tokenId].access

\* Lit.accessControlConditions: hasAccess(this.tokenId, :userAddress) must return true;
\* cid is the piece CID of a file encrypted by encryptFile({file, tokenId, ...})
CanDecrypt(cid, account) == hasAccess(encFiles[cid], account)

\* setMintType of the access type buttons
SetMintType(t) ==
  /\ mintType # t
  /\ mintType' = t
  /\ UNCHANGED <<accessAddresses, mPc, mClosure, mPieceCid, mintedTokenId, lastMint,
                 litVars, wallet, selectVars>>

\* addAccessAddress
addAccessAddress ==
  /\ Len(accessAddresses) < MaxAddresses
  /\ accessAddresses' = Append(accessAddresses, "")
  /\ UNCHANGED <<mintType, mPc, mClosure, mPieceCid, mintedTokenId, lastMint,
                 litVars, wallet, selectVars>>

\* removeAccessAddress(index)
removeAccessAddress(index) ==
  /\ index \in 1..Len(accessAddresses)
  /\ accessAddresses' = [i \in 1..(Len(accessAddresses) - 1) |->
                           IF i < index THEN accessAddresses[i] ELSE accessAddresses[i + 1]]
  /\ UNCHANGED <<mintType, mPc, mClosure, mPieceCid, mintedTokenId, lastMint,
                 litVars, wallet, selectVars>>

\* updateAccessAddress(index, value)
updateAccessAddress(index, value) ==
  /\ index \in 1..Len(accessAddresses)
  /\ accessAddresses[index] # value
  /\ accessAddresses' = [accessAddresses EXCEPT ![index] = value]
  /\ UNCHANGED <<mintType, mPc, mClosure, mPieceCid, mintedTokenId, lastMint,
                 litVars, wallet, selectVars>>

\* the disabled attribute of the "Encrypt & Mint" button
MintDisabled ==
  \/ wallet = ""
  \/ mintType = "private" /\ \A i \in 1..Len(accessAddresses) : accessAddresses[i] = ""

\* handleEncryptUploadAndMint up to the await of encryptAndUploadFile({file, tokenId: 1})
EncryptStart ==
  /\ mPc = "idle"
  /\ selectedFile["EncryptedNFTMinter"] # NoFileSize
  /\ mPieceCid = 0
  /\ ~MintDisabled
  /\ Len(encFiles) < MaxLitMints
  /\ mPc' = "encrypting"
  /\ mClosure' = [accessAddresses |-> accessAddresses, mintType |-> mintType, pieceCid |-> 0]
  /\ UNCHANGED <<mintType, accessAddresses, mPieceCid, mintedTokenId, lastMint,
                 litVars, wallet, selectVars>>

\* the file was encrypted under the condition for token id 1 and uploaded: setPieceCid
EncryptUploaded ==
  /\ mPc = "encrypting"
  /\ encFiles' = Append(encFiles, 1)
  /\ mClosure' = [mClosure EXCEPT !.pieceCid = Len(encFiles) + 1]
  /\ mPieceCid' = Len(encFiles) + 1
  /\ mPc' = "minting"
  /\ UNCHANGED <<mintType, accessAddresses, mintedTokenId, lastMint, litTokens, wallet, selectVars>>

\* encryption, upload or the mint transaction fails: catch logs, finally resets the mutation
EncryptFailed ==
  /\ mPc \in {"encrypting", "minting"}
  /\ mPc' = "idle"
  /\ UNCHANGED <<mintType, accessAddresses, mClosure, mPieceCid, mintedTokenId, lastMint,
                 litVars, wallet, selectVars>>

\* mintNFT({functionName: "mintPrivate", args: [pieceCid, accessAddresses]}) is executed
\* for the connected account; setMintedTokenId("1")
EncryptMinted ==
  /\ mPc = "minting"
  /\ wallet # ""
  \* an address[] argument holding "" cannot be encoded: that call fails (EncryptFailed)
  /\ \A i \in 1..Len(mClosure.accessAddresses) : mClosure.accessAddresses[i] # ""
  /\ mintPrivate(wallet, mClosure.pieceCid, mClosure.accessAddresses)
  /\ lastMint' = [called |-> TRUE, tokenId |-> Len(litTokens) + 1, cid |-> mClosure.pieceCid,
                  mintType |-> mClosure.mintType,
                  addresses |-> Range(mClosure.accessAddresses)]
  /\ mintedTokenId' = "1"
  /\ mPc' = "idle"
  /\ UNCHANGED <<mintType, accessAddresses, mClosure, mPieceCid, encFiles, wallet, selectVars>>

\* handleRetry of EncryptedNFTMinter
EncryptRetry ==
  /\ mPc = "idle"
  /\ ClearSelection("EncryptedNFTMinter")
  /\ mPieceCid' = 0
  /\ mintedTokenId' = ""
  /\ UNCHANGED <<mintType, accessAddresses, mPc, mClosure, lastMint, litVars, wallet>>

NoMint == [called |-> FALSE, tokenId |-> 0, cid |-> 0, mintType |-> "public", addresses |-> {}]

LitInit ==
  /\ litTokens = << >>
  /\ encFiles = << >>

EncMinterInit ==
  /\ mintType = "public"
  /\ accessAddresses = <<"">>
  /\ mPc = "idle"
  /\ mClosure = [accessAddresses |-> << >>, mintType |-> "public", pieceCid |-> 0]
  /\ mPieceCid = 0
  /\ mintedTokenId = ""
  /\ lastMint = NoMint

EncMinterNext ==
  \/ \E a \in Accounts \cup {""} :
       SetWallet(a) /\ UNCHANGED <<selectVars, litVars, encMinterVars>>
  \/ HandleFileSelect("EncryptedNFTMinter", 1)
       /\ UNCHANGED <<wallet, litVars, mintType, accessAddresses, mPc, mClosure, lastMint>>
  \/ \E t \in {"public", "private"} : SetMintType(t)
  \/ addAccessAddress
  \/ \E i \in 1..MaxAddresses : removeAccessAddress(i)
  \/ \E i \in 1..MaxAddresses, v \in Accounts \cup {""} : updateAccessAddress(i, v)
  \/ EncryptStart
  \/ EncryptUploaded
  \/ EncryptFailed
  \/ EncryptMinted
  \/ EncryptRetry

(***************************************************************************)
(* useFileUploadEnhanced: uploadFile, cancelUpload, resetUpload.           *)
(***************************************************************************)
InFlight == upPc \in {"converting", "sleeping", "processing"}

\* cancelTokenRef.current?.signal.aborted
SignalAborted(ref) == ref = "aborted"

\* if (cancelTokenRef.current) { cancelTokenRef.current.abort(); cancelTokenRef.current = null; }
AbortAndClear(ref) ==
  LET afterAbort == IF ref # "null" THEN "aborted" ELSE ref
  IN  IF ref # "null" THEN "null" ELSE afterAbort

\* uploadFile(file): mutationFn up to the await of convertFileInput(file)
UploadFile ==
  /\ ~InFlight
  /\ Len(uploadAttempts) < MaxUploads
  /\ progressState' = [status |-> "converting", progress |-> 10]
  /\ upPc' = "converting"
  /\ upLocal' = [progress |-> 30, closed |-> progressState.progress]
  /\ cancelled' = FALSE
  /\ UNCHANGED <<cancelTokenRef, uploadAttempts>>

\* the catch and finally blocks of mutationFn
UploadThrows ==
  /\ progressState' = [status |-> "failed", progress |-> upLocal.closed]
  /\ uploadAttempts' = Append(uploadAttempts, FALSE)
  /\ cancelTokenRef' = "null"
  /\ upPc' = "rejected"
  /\ UNCHANGED <<upLocal, cancelled>>

\* convertFileInput resolved: validation, new AbortController, 'initializing',
\* 'uploading' at 30, the first abort check of the loop, then the first 500ms wait
Converted(valid) ==
  /\ upPc = "converting"
  /\ IF ~valid
     THEN UploadThrows
     ELSE /\ cancelTokenRef' = "live"
          /\ progressState' = [status |-> "uploading", progress |-> 30]
          /\ upPc' = "sleeping"
          /\ UNCHANGED <<upLocal, uploadAttempts, cancelled>>

\* convertFileInput rejects
ConvertRejected ==
  /\ upPc = "converting"
  /\ UploadThrows

\* a 500ms wait of the loop ended: setProgressState('uploading', progress), progress += 10,
\* then either the abort check and the next wait, or 'processing' and the 1000ms wait
SleepDone ==
  /\ upPc = "sleeping"
  /\ LET next == upLocal.progress + 10
     IN  IF next < 80
         THEN IF SignalAborted(cancelTokenRef)
              THEN UploadThrows
              ELSE /\ progressState' = [status |-> "uploading", progress |-> upLocal.progress]
                   /\ upLocal' = [upLocal EXCEPT !.progress = next]
                   /\ UNCHANGED <<upPc, cancelTokenRef, uploadAttempts, cancelled>>
         ELSE /\ progressState' = [status |-> "processing", progress |-> 80]
              /\ upLocal' = [upLocal EXCEPT !.progress = next]
              /\ upPc' = "processing"
              /\ UNCHANGED <<cancelTokenRef, uploadAttempts, cancelled>>

\* the 1000ms wait ended: 'completed' at 100, recordAttempt(success), return result, finally
ProcessingDone ==
  /\ upPc = "processing"
  /\ progressState' = [status |-> "completed", progress |-> 100]
  /\ uploadAttempts' = Append(uploadAttempts, TRUE)
  /\ cancelTokenRef' = "null"
  /\ upPc' = "resolved"
  /\ UNCHANGED <<upLocal, cancelled>>

\* cancelUpload()
cancelUpload ==
  /\ cancelTokenRef' = AbortAndClear(cancelTokenRef)
  /\ progressState' = [status |-> "failed", progress |-> progressState.progress]
  /\ cancelled' = (cancelled \/ InFlight)
  /\ UNCHANGED <<upPc, upLocal, uploadAttempts>>

\* resetUpload()
resetUpload ==
  /\ cancelTokenRef' = AbortAndClear(cancelTokenRef)
  /\ progressState' = [status |-> "idle", progress |-> 0]
  /\ UNCHANGED <<upPc, upLocal, uploadAttempts, cancelled>>

UploadInit ==
  /\ progressState = [status |-> "idle", progress |-> 0]
  /\ cancelTokenRef = "null"
  /\ upPc = "none"
  /\ upLocal = [progress |-> 30, closed |-> 0]
  /\ uploadAttempts = << >>
  /\ cancelled = FALSE

UploadNext ==
  \/ UploadFile
  \/ \E valid \in BOOLEAN : Converted(valid)
  \/ ConvertRejected
  \/ SleepDone
  \/ ProcessingDone
  \/ cancelUpload
  \/ resetUpload

(***************************************************************************)
(* Solution useDatasets: the queryFn.                                      *)
(***************************************************************************)
ProviderIds == {1, 2}

\* warmStorageService.getApprovedProviderIds(): lists of distinct provider ids
ProviderIdLists == {<< >>, <<1>>, <<2>>, <<1, 2>>, <<2, 1>>}

\* an EnhancedDataSetInfo: its id, its provider and the provider's payee address
DataSetInfos ==
  [pdpVerifierDataSetId : 1..MaxDatasets, providerId : ProviderIds, payee : {"0xSP"}]

\* warmStorageService.getClientDataSetsWithDetails(address): data set ids are unique
DataSetLists ==
  UNION {{d \in [1..n -> DataSetInfos] :
            \A i, j \in 1..n : i # j => d[i].pdpVerifierDataSetId # d[j].pdpVerifierDataSetId}
         : n \in 0..MaxDatasets}

\* step 4: datasets.reduce(...): provider id -> payee, "" where no dataset names the id
providerIdToAddressMap(datasets) ==
  [pid \in ProviderIds |->
     IF \E i \in 1..Len(datasets) : datasets[i].providerId = pid THEN "0xSP" ELSE ""]

\* steps 5 and 6: providers.filter(provider => provider !== null), as the set of ids, and
\* the service URL of each ("" for `|| ""`); "none" stands for undefined
providerIdToServiceUrlMap(pid) ==
  LET idx == {i \in 1..Len(provOut) : dsLists.providerIds[i] = pid /\ provOut[i] \in {"ok", "okNoUrl"}}
  IN  IF idx = {} THEN "none"
      ELSE IF \E i \in idx : provOut[i] = "ok" THEN "https://pdp" ELSE ""

\* filteredProviders.find(p => p.id === dataset.providerId): its id, 0 for undefined
FindProvider(pid) ==
  IF \E i \in 1..Len(provOut) : dsLists.providerIds[i] = pid /\ provOut[i] \in {"ok", "okNoUrl"}
  THEN pid ELSE 0

\* a detail promise that swallows the basic info of a data set whose fetch failed
DatasetDetails_DropsFailed(dataset, outcome) ==
  [defined |-> outcome = "ok", dataset |-> dataset, provider |-> FindProvider(dataset.providerId),
   serviceURL |-> providerIdToServiceUrlMap(dataset.providerId), hasData |-> outcome = "ok"]

\* step 7: what the detail promise of one data set resolves to
DatasetDetails(dataset, outcome) ==
  [defined |-> TRUE, dataset |-> dataset, provider |-> FindProvider(dataset.providerId),
   serviceURL |-> providerIdToServiceUrlMap(dataset.providerId), hasData |-> outcome = "ok"]

NoDetails ==
  [defined |-> FALSE, dataset |-> [pdpVerifierDataSetId |-> 1, providerId |-> 1, payee |-> "0xSP"],
   provider |-> 0, serviceURL |-> "none", hasData |-> FALSE]

\* step 9: datasets.map(dataset => datasetDataResults.find(result => same id))
datasetsWithDetails(datasets, results) ==
  [k \in 1..Len(datasets) |->
     LET hits == {i \in 1..Len(results) :
                    results[i].defined /\
                    results[i].dataset.pdpVerifierDataSetId = datasets[k].pdpVerifierDataSetId}
     IN  IF hits = {} THEN NoDetails
         ELSE results[CHOOSE i \in hits : \A j \in hits : i <= j]]

\* queryFn is started: steps 1 and 2, then the two list fetches of step 3
DatasetsStart(hasSigner) ==
  /\ dsPc \in {"idle", "success", "error"}
  /\ dsPc' = IF hasSigner THEN "lists" ELSE "error"
  /\ dsLists' = [providerIds |-> << >>, datasets |-> << >>]
  /\ provOut' = << >>
  /\ detOut' = << >>
  /\ dsResult' = << >>

\* one of the fetches of step 3 (or Synapse.create) fails: the query fails
ListsFailed ==
  /\ dsPc = "lists"
  /\ dsPc' = "error"
  /\ UNCHANGED <<dsLists, provOut, detOut, dsResult>>

\* step 3 resolved; steps 4 and 5 start one provider-info fetch per approved id that
\* a dataset names
ListsFetched(pids, datasets) ==
  /\ dsPc = "lists"
  /\ dsPc' = "providers"
  /\ dsLists' = [providerIds |-> pids, datasets |-> datasets]
  /\ provOut' = [i \in 1..Len(pids) |->
                   IF providerIdToAddressMap(datasets)[pids[i]] = "" THEN "skipped" ELSE "pending"]
  /\ UNCHANGED <<detOut, dsResult>>

\* synapse.getProviderInfo(providerId) settles: resolved, or rejected and caught
ProviderResolved(i, outcome) ==
  /\ dsPc = "providers"
  /\ i \in 1..Len(provOut)
  /\ provOut[i] = "pending"
  /\ provOut' = [provOut EXCEPT ![i] = outcome]
  /\ UNCHANGED <<dsPc, dsLists, detOut, dsResult>>

\* Promise.all of step 5 resolves; steps 6 and 7 start one detail fetch per dataset
ProvidersSettled ==
  /\ dsPc = "providers"
  /\ \A i \in 1..Len(provOut) : provOut[i] # "pending"
  /\ dsPc' = "details"
  /\ detOut' = [k \in 1..Len(dsLists.datasets) |-> "pending"]
  /\ UNCHANGED <<dsLists, provOut, dsResult>>

\* new PDPServer(...).getDataSet(id) settles: resolved, or thrown and caught
DetailResolved(k, outcome) ==
  /\ dsPc = "details"
  /\ k \in 1..Len(detOut)
  /\ detOut[k] = "pending"
  /\ detOut' = [detOut EXCEPT ![k] = outcome]
  /\ UNCHANGED <<dsPc, dsLists, provOut, dsResult>>

\* steps 8 and 9: Promise.all of the detail promises resolves and the query returns
DetailsSettled ==
  /\ dsPc = "details"
  /\ \A k \in 1..Len(detOut) : detOut[k] # "pending"
  /\ dsResult' = datasetsWithDetails(dsLists.datasets,
                   [k \in 1..Len(detOut) |-> DatasetDetails(dsLists.datasets[k], detOut[k])])
  /\ dsPc' = "success"
  /\ UNCHANGED <<dsLists, provOut, detOut>>

DatasetsInit ==
  /\ dsPc = "idle"
  /\ dsLists = [providerIds |-> << >>, datasets |-> << >>]
  /\ provOut = << >>
  /\ detOut = << >>
  /\ dsResult = << >>

DatasetsNext ==
  \/ \E hasSigner \in BOOLEAN : DatasetsStart(hasSigner)
  \/ ListsFailed
  \/ \E pids \in ProviderIdLists, datasets \in DataSetLists : ListsFetched(pids, datasets)
  \/ \E i \in 1..2, outcome \in {"ok", "okNoUrl", "failed"} : ProviderResolved(i, outcome)
  \/ ProvidersSettled
  \/ \E k \in 1..MaxDatasets, outcome \in {"ok", "failed"} : DetailResolved(k, outcome)
  \/ DetailsSettled

(***************************************************************************)
(* Solution usePayment: the mutationFn.                                    *)
(***************************************************************************)
\* MAX_UINT256 of utils/synapse/constants, at the width of the model
MAX_UINT256 == 2^UintBits - 1

\* DATA_SET_CREATION_FEE of utils/synapse/constants, in units of the model
DATA_SET_CREATION_FEE == 1

Amounts == {0, 2}

Allowances == {0, (MAX_UINT256 \div 2) - 1, MAX_UINT256 \div 2, MAX_UINT256}

Balances == {0, 1, 3}

\* step 5 with its test read as "at most half": approves again at exactly MAX_UINT256 / 2
NeedsApproval_Inclusive(allowance) == allowance <= MAX_UINT256 \div 2

\* step 5: if (allowance < MAX_UINT256 / 2n)
NeedsApproval(allowance) == allowance < MAX_UINT256 \div 2

\* the transaction mutationFn turns to after the given step: steps 5, 6 and 7
NextTransaction(after, local) ==
  IF after = "none" /\ NeedsApproval(local.allowance) THEN "approve"
  ELSE IF after \in {"none", "approve"} /\ local.amount > 0 THEN "deposit"
  ELSE "approveService"

\* setStatus of a progress message
InfoStatus(text) == [icon |-> "info", text |-> text]

\* onError: setStatus(`X ${error.message || "Transaction failed. Please try again."}`)
ErrorStatus(message) ==
  [icon |-> "error",
   text |-> IF message = "" THEN "Transaction failed. Please try again." ELSE message]

\* the status while the given transaction is being sent and confirmed
SendingStatus(tx) ==
  CASE tx = "approve" -> InfoStatus("Approving USDFC to cover storage costs...")
    [] tx = "deposit" -> InfoStatus("Depositing USDFC to cover storage costs...")
    [] OTHER -> InfoStatus("Approving Filecoin Warm Storage service USDFC spending rates...")

NoPayment ==
  [depositAmount |-> 0, fee |-> 0, amount |-> 0, allowance |-> 0, balance |-> 0, tx |-> "none",
   read |-> FALSE]

\* mutation.mutateAsync({..., depositAmount}): step 1, then the awaits of steps 2 to 4
PaymentStart(depositAmount, hasSigner) ==
  /\ payPc \in {"idle", "done", "failed"}
  /\ payCount < MaxPayments
  /\ payCount' = payCount + 1
  /\ payPc' = IF hasSigner THEN "preparing" ELSE "failed"
  /\ payStatus' = IF hasSigner THEN InfoStatus("Preparing transaction...")
                  ELSE ErrorStatus("Signer not found")
  /\ payLocal' = [NoPayment EXCEPT !.depositAmount = depositAmount]
  /\ txLog' = << >>
  /\ UNCHANGED <<success, payTxHash>>

\* steps 3 and 4 resolved: fee, amount, the balance check, then the first transaction
PaymentPrepared(hasDataset, allowance, balance) ==
  /\ payPc = "preparing"
  /\ LET fee == IF hasDataset THEN 0 ELSE DATA_SET_CREATION_FEE
         local == [payLocal EXCEPT !.fee = fee, !.amount = payLocal.depositAmount + fee,
                                   !.allowance = allowance, !.balance = balance,
                                   !.read = TRUE]
     IN  IF balance < local.amount
         THEN /\ payPc' = "failed"
              /\ payLocal' = local
              /\ payStatus' = ErrorStatus("Insufficient USDFC balance")
         ELSE /\ payPc' = "sending"
              /\ payLocal' = [local EXCEPT !.tx = NextTransaction("none", local)]
              /\ payStatus' = SendingStatus(NextTransaction("none", local))
  /\ UNCHANGED <<txLog, success, payTxHash, payCount>>

\* an awaited call rejects (Synapse.create, a read, a send or transaction.wait())
PaymentRejected(message) ==
  /\ payPc \in {"preparing", "sending", "waiting"}
  /\ payPc' = "failed"
  /\ payStatus' = ErrorStatus(message)
  /\ UNCHANGED <<payLocal, txLog, success, payTxHash, payCount>>

\* synapse.payments.approve / deposit / approveService resolved: the transaction is sent
TransactionSent ==
  /\ payPc = "sending"
  /\ txLog' = Append(txLog, [kind |-> payLocal.tx, confirmed |-> FALSE])
  /\ payPc' = "waiting"
  /\ UNCHANGED <<payLocal, success, payTxHash, payCount, payStatus>>

\* transaction.wait() resolved: the next transaction, or after the service approval
\* setTransactionHash(transaction.hash) and setSuccess(true)
TransactionConfirmed ==
  /\ payPc = "waiting"
  /\ txLog' = [txLog EXCEPT ![Len(txLog)].confirmed = TRUE]
  /\ IF payLocal.tx = "approveService"
     THEN /\ payTxHash' = payCount
          /\ success' = TRUE
          /\ payPc' = "done"
          /\ payStatus' = InfoStatus("Payment was successful!")
          /\ UNCHANGED payLocal
     ELSE /\ payLocal' = [payLocal EXCEPT !.tx = NextTransaction(payLocal.tx, payLocal)]
          /\ payStatus' = SendingStatus(NextTransaction(payLocal.tx, payLocal))
          /\ payPc' = "sending"
          /\ UNCHANGED <<success, payTxHash>>
  /\ UNCHANGED payCount

PaymentInit ==
  /\ payPc = "idle"
  /\ payLocal = NoPayment
  /\ txLog = << >>
  /\ success = FALSE
  /\ payTxHash = 0
  /\ payCount = 0
  /\ payStatus = [icon |-> "", text |-> ""]

PaymentNext ==
  \/ \E depositAmount \in Amounts, hasSigner \in BOOLEAN : PaymentStart(depositAmount, hasSigner)
  \/ \E hasDataset \in BOOLEAN, allowance \in Allowances, balance \in Balances :
       PaymentPrepared(hasDataset, allowance, balance)
  \/ \E message \in {"", "execution reverted"} : PaymentRejected(message)
  \/ TransactionSent
  \/ TransactionConfirmed

(***************************************************************************)
(* useChallengeVerification: flags and attempts.  Strings whose characters *)
(* matter are sequences of one-character strings.                          *)
(***************************************************************************)
Repeat(ch, n) == [i \in 1..n |-> ch]

\* a transaction hash: "0x" and 64 hex digits
TxHashFlag == <<"0", "x">> \o Repeat("a", 64)

\* the value '0x1234567890abcdef...' of the documented hook test
AbbreviatedFlag ==
  <<"0", "x", "1", "2", "3", "4", "5", "6", "7", "8", "9", "0",
    "a", "b", "c", "d", "e", "f", ".", ".", ".">>

\* the flags a participant submits
Flags ==
  { TxHashFlag, AbbreviatedFlag, <<" ">> \o TxHashFlag \o <<" ">>, <<"0", "x">> \o Repeat("a", 63),
    << >>, <<" ", " ">>, <<"Q", "m">> \o Repeat("b", 44), <<"4", "2">> }

\* String.prototype.trim
Trim(str) ==
  LET ink == {i \in 1..Len(str) : str[i] # " "}
  IN  IF ink = {} THEN << >>
      ELSE SubSeq(str, CHOOSE i \in ink : \A j \in ink : i <= j,
                       CHOOSE i \in ink : \A j \in ink : j <= i)

\* str.startsWith(prefix) for from = 1; str.includes(prefix) is some from
StartsWithAt(str, prefix, from) ==
  /\ from + Len(prefix) - 1 <= Len(str)
  /\ \A i \in 1..Len(prefix) : str[from + i - 1] = prefix[i]

\* challengeFlags.get(challengeId)(flag)
challengeFlags(challengeId, flag) ==
  CASE challengeId = "TREASURY_MASTER" -> StartsWithAt(flag, <<"0", "x">>, 1) /\ Len(flag) = 66
    [] challengeId = "STORAGE_SENTINEL" -> StartsWithAt(flag, <<"Q", "m">>, 1) /\ Len(flag) = 46
    [] challengeId = "DATA_GUARDIAN" ->
         StartsWithAt(flag, <<"e", "n", "c", "r", "y", "p", "t", "e", "d", "_">>, 1) /\ Len(flag) > 20
    [] challengeId = "NFT_ARCHITECT" ->
         Len(flag) > 0 /\ \A i \in 1..Len(flag) :
           flag[i] \in {"0", "1", "2", "3", "4", "5", "6", "7", "8", "9"}
    [] OTHER ->
         \E from \in 1..Len(flag) :
           StartsWithAt(flag, <<"d", "e", "c", "r", "y", "p", "t", "e", "d", "_",
                                "c", "o", "n", "t", "e", "n", "t">>, from)

\* validateChallengeFlag(challengeId, flag): [valid, error]
validateChallengeFlag(challengeId, flag) ==
  IF flag = << >> \/ Trim(flag) = << >>
  THEN [valid |-> FALSE, error |-> "Flag cannot be empty"]
  ELSE IF ~challengeFlags(challengeId, Trim(flag))
       THEN [valid |-> FALSE, error |-> "Invalid flag format"]
       ELSE [valid |-> TRUE, error |-> ""]

\* attempts dispatched and not yet reduced
QueuedAttempts == Len(SelectSeq(queue, LAMBDA a : a.type = "RECORD_ATTEMPT"))

\* validateFlag(challengeId, flag) called from a handler with the callback of the last render
ValidateFlag(challengeId, flag) ==
  /\ mounted = "consumer"
  /\ effects = {}
  /\ Len(queue) + 2 <= MaxQueue
  /\ Len(hookState.attempts) + QueuedAttempts < MaxAttempts
  /\ LET result  == validateChallengeFlag(challengeId, flag)
         attempt == [challengeId |-> challengeId, success |-> result.valid]
     IN  /\ queue' = queue \o
               << [type |-> "CLEAR_ERROR", completedChallenges |-> EmptyProgress, attempts |-> << >>],
                  [type |-> "RECORD_ATTEMPT", completedChallenges |-> EmptyProgress,
                   attempts |-> <<attempt>>] >>
         /\ lsAttempts' = [present |-> TRUE, attempts |-> Append(hookState.attempts, attempt)]
         /\ lastValidation' = [called |-> TRUE, challengeId |-> challengeId, flag |-> flag,
                               valid |-> result.valid, error |-> result.error]
  /\ UNCHANGED <<lsProgress, lsTx, mounted, propChallenge, propTx, hookState, captured,
                 effects, callLog, timers, lsLegacyTx, resetResolved>>

AttemptsInit ==
  /\ lsAttempts = [present |-> FALSE, attempts |-> << >>]
  /\ lsLegacyTx = [n \in 1..5 |-> ""]
  /\ resetResolved = FALSE
  /\ timers = << >>
  /\ lastValidation = [called |-> FALSE, challengeId |-> "TREASURY_MASTER", flag |-> << >>,
                       valid |-> FALSE, error |-> ""]

FlagNext ==
  \/ MountConsumer /\ UNCHANGED attemptVars
  \/ Unmount /\ UNCHANGED attemptVars
  \/ FlushEffects /\ UNCHANGED attemptVars
  \/ Render /\ UNCHANGED attemptVars
  \/ \E c \in ChallengeType, flag \in Flags : ValidateFlag(c, flag)

(***************************************************************************)
(* The legacy progress API of components/workshop/ChallengeSuccess and     *)
(* getChallengeStatus / isChallengeUnlocked of the hook.                   *)
(***************************************************************************)
\* a challenge number as an element of completedChallenges: a JavaScript number, which
\* Array.prototype.includes never finds equal to a ChallengeType string
NumberEntry(n) == <<"1", "2", "3", "4", "5">>[n]

\* saveProgress(challengeNumber, transactionHash), run by the effect of <ChallengeSuccess/>
saveProgress(challengeNumber, transactionHash) ==
  /\ lsProgress' =
       [present |-> TRUE,
        completedChallenges |->
          IF Includes(ProgressStorageGet, NumberEntry(challengeNumber)) THEN ProgressStorageGet
          ELSE Append(ProgressStorageGet, NumberEntry(challengeNumber))]
  /\ lsLegacyTx' = IF transactionHash # ""
                   THEN [lsLegacyTx EXCEPT ![challengeNumber] = transactionHash]
                   ELSE lsLegacyTx
  /\ resetResolved' = FALSE
  /\ UNCHANGED <<lsTx, mounted, propChallenge, propTx, hookState, queue, captured, effects,
                 callLog, lsAttempts, timers, lastValidation>>

\* isChallengeCompleted(challengeNumber)
isChallengeCompleted(challengeNumber) == Includes(ProgressStorageGet, NumberEntry(challengeNumber))

\* getChallengeStatus(challengeId) without the check of the prerequisites
getChallengeStatus_NeverLocked(completed, challengeId) ==
  IF Includes(completed, challengeId)
  THEN [status |-> "completed", prerequisiteChallenge |-> ""]
  ELSE [status |-> "not_started", prerequisiteChallenge |-> ""]

\* getChallengeStatus(challengeId) over state.progress.completedChallenges
getChallengeStatus(completed, challengeId) ==
  LET prerequisites == FindChallenge(challengeId).prerequisites
      missing == {i \in 1..Len(prerequisites) : ~Includes(completed, prerequisites[i])}
  IN  IF Includes(completed, challengeId)
      THEN [status |-> "completed", prerequisiteChallenge |-> ""]
      ELSE IF Len(prerequisites) > 0 /\ missing # {}
           THEN [status |-> "locked",
                 prerequisiteChallenge |-> prerequisites[CHOOSE i \in missing : \A j \in missing : i <= j]]
           ELSE [status |-> "not_started", prerequisiteChallenge |-> ""]

\* isChallengeUnlocked(challengeId)
isChallengeUnlocked(completed, challengeId) ==
  getChallengeStatus(completed, challengeId).status # "locked"

LegacyNext ==
  \/ MountConsumer /\ UNCHANGED attemptVars
  \/ Unmount /\ UNCHANGED attemptVars
  \/ FlushEffects /\ UNCHANGED attemptVars
  \/ Render /\ UNCHANGED attemptVars
  \* an event handler that completes one challenge per render
  \/ \E c \in Playable :
       queue = << >> /\ HandlerComplete(c, "") /\ UNCHANGED attemptVars
  \/ \E n \in 1..MaxChallenge, h \in TxHashes :
       /\ LET legacy == {m \in 1..MaxChallenge : isChallengeCompleted(m) \/ lsLegacyTx[m] # ""}
          IN  n \in legacy \/ Cardinality(legacy) < MaxLegacy
       /\ saveProgress(n, h)

(***************************************************************************)
(* resetProgress and recordAttempt of the hook.                            *)
(***************************************************************************)
\* recordAttempt(attempt) called from a handler with the callback of the last render: the
\* save is deferred with setTimeout(..., 0) and writes the attempts of that render
recordAttempt(attempt) ==
  /\ mounted = "consumer"
  /\ effects = {}
  /\ Len(queue) + 1 <= MaxQueue
  /\ Len(hookState.attempts) + QueuedAttempts < MaxAttempts
  /\ Len(timers) < MaxTimers
  /\ queue' = Append(queue, [type |-> "RECORD_ATTEMPT", completedChallenges |-> EmptyProgress,
                             attempts |-> <<attempt>>])
  /\ timers' = Append(timers, Append(hookState.attempts, attempt))
  /\ resetResolved' = FALSE
  /\ UNCHANGED <<lsProgress, lsTx, mounted, propChallenge, propTx, hookState, captured,
                 effects, callLog, lsAttempts, lsLegacyTx, lastValidation>>

\* the oldest pending timer of recordAttempt runs: attemptsStorage.set(updatedAttempts)
TimerFires ==
  /\ timers # << >>
  /\ lsAttempts' = [present |-> TRUE, attempts |-> Head(timers)]
  /\ timers' = Tail(timers)
  /\ UNCHANGED <<lsProgress, lsTx, mounted, propChallenge, propTx, hookState, queue, captured,
                 effects, callLog, lsLegacyTx, resetResolved, lastValidation>>

\* resetProgress(): removes the progress item, the attempts item and the item
\* challenge-<ChallengeType>-tx of every ChallengeType, between two dispatches
resetProgress ==
  /\ mounted = "consumer"
  /\ effects = {}
  /\ Len(queue) + 2 <= MaxQueue
  /\ queue' = queue \o
        << [type |-> "START_SAVE", completedChallenges |-> EmptyProgress, attempts |-> << >>],
           [type |-> "RESET_PROGRESS", completedChallenges |-> EmptyProgress, attempts |-> << >>] >>
  /\ lsProgress' = NoRecord
  /\ lsAttempts' = [present |-> FALSE, attempts |-> << >>]
  /\ lsTx' = [c \in ChallengeType |-> ""]
  /\ resetResolved' = TRUE
  /\ UNCHANGED <<mounted, propChallenge, propTx, hookState, captured, effects, callLog,
                 lsLegacyTx, timers, lastValidation>>

ResetNext ==
  \/ MountConsumer /\ UNCHANGED attemptVars
  \/ FlushEffects /\ UNCHANGED attemptVars
  \/ Render /\ UNCHANGED attemptVars
  \/ \E c \in Playable :
       /\ queue = << >>
       /\ HandlerComplete(c, "0xabc")
       /\ resetResolved' = FALSE
       /\ UNCHANGED <<lsAttempts, lsLegacyTx, timers, lastValidation>>
  \/ \E n \in 1..MaxLegacy : saveProgress(n, "0xabc")
  \/ \E ok \in BOOLEAN : recordAttempt([challengeId |-> "TREASURY_MASTER", success |-> ok])
  \/ TimerFires
  \/ resetProgress

(***************************************************************************)
(* WorkshopContext: <WorkshopProvider/> holds a workshopReducer state next *)
(* to its instance of useChallengeVerification, in the same component.     *)
(***************************************************************************)
\* ids handed to navigateToChallenge; "UNKNOWN" is in no entry of WORKSHOP_CHALLENGES
NavigationTargets == Playable \cup {"UNKNOWN"}

initialWorkshopState == [currentChallenge |-> "", error |-> ""]

\* workshopReducer, on currentChallenge and ui.error
workshopReducer(state, action) ==
  CASE action.type = "LOAD_PROGRESS" -> [state EXCEPT !.error = ""]
    [] action.type = "NAVIGATE_TO_CHALLENGE" ->
         [state EXCEPT !.currentChallenge = action.challengeId, !.error = ""]
    [] action.type = "SET_LOADING" -> state
    [] action.type = "SET_ERROR" -> [state EXCEPT !.error = action.error]
    [] action.type = "RESET_PROGRESS" -> [state EXCEPT !.error = ""]

RECURSIVE ReduceContext(_, _)
ReduceContext(state, q) ==
  IF q = << >> THEN state ELSE ReduceContext(workshopReducer(state, Head(q)), Tail(q))

WorkshopAction(type, challengeId, error) ==
  [type |-> type, challengeId |-> challengeId, error |-> error]

NoNavigation ==
  [called |-> FALSE, challengeId |-> "", completed |-> EmptyProgress,
   before |-> initialWorkshopState, after |-> initialWorkshopState]

ContextInit ==
  /\ ctx = initialWorkshopState
  /\ ctxQueue = << >>
  /\ ctxEffect = FALSE
  /\ lastNav = NoNavigation

\* <WorkshopProvider initialChallenge={initialChallenge}/> is mounted
MountProvider(initialChallenge) ==
  /\ MountConsumer
  /\ ctx' = [initialWorkshopState EXCEPT !.currentChallenge = initialChallenge]
  /\ ctxQueue' = << >>
  /\ ctxEffect' = TRUE
  /\ UNCHANGED lastNav

\* the passive effects of the provider: the load effect of the hook when it is pending,
\* then the effect on challengeVerification.progress
ProviderEffects ==
  /\ mounted = "consumer"
  /\ ctxEffect
  /\ IF effects # {}
     THEN FlushEffects
     ELSE UNCHANGED progressVars
  /\ ctxQueue' = ctxQueue \o << WorkshopAction("SET_LOADING", "", ""),
                                WorkshopAction("LOAD_PROGRESS", "", "") >>
  /\ ctxEffect' = FALSE
  /\ UNCHANGED <<ctx, lastNav>>

\* re-render of the provider: both reducers take their queued actions; the effect on
\* challengeVerification.progress is scheduled when state.progress is a new object
ProviderRender ==
  /\ mounted = "consumer"
  /\ effects = {}
  /\ ~ctxEffect
  /\ queue # << >> \/ ctxQueue # << >>
  /\ hookState' = Reduce(hookState, queue)
  /\ captured' = hookState'.completedChallenges
  /\ queue' = << >>
  /\ ctx' = ReduceContext(ctx, ctxQueue)
  /\ ctxQueue' = << >>
  /\ ctxEffect' = \E i \in 1..Len(queue) : ReplacesProgress(queue[i])
  /\ UNCHANGED <<lsProgress, lsTx, mounted, propChallenge, propTx, effects, callLog, lastNav>>

\* navigateToChallenge(challengeId) without the check of isChallengeUnlocked
navigateToChallenge_NoLockCheck(challengeId) ==
  /\ mounted = "consumer"
  /\ effects = {}
  /\ ~ctxEffect
  /\ Len(ctxQueue) < MaxNavigations
  /\ LET known  == \E i \in 1..Len(WORKSHOP_CHALLENGES) : WORKSHOP_CHALLENGES[i].id = challengeId
         action == IF ~known
                   THEN WorkshopAction("SET_ERROR", "", "Challenge not found")
                   ELSE WorkshopAction("NAVIGATE_TO_CHALLENGE", challengeId, "")
     IN  /\ ctxQueue' = Append(ctxQueue, action)
         /\ lastNav' = [called |-> TRUE, challengeId |-> challengeId,
                        completed |-> hookState.completedChallenges,
                        before |-> ReduceContext(ctx, ctxQueue),
                        after |-> ReduceContext(ctx, ctxQueue')]
  /\ UNCHANGED <<progressVars, ctx, ctxEffect>>

\* navigateToChallenge(challengeId) called from a handler with the callback of the last render
navigateToChallenge(challengeId) ==
  /\ mounted = "consumer"
  /\ effects = {}
  /\ ~ctxEffect
  /\ Len(ctxQueue) < MaxNavigations
  /\ LET known  == \E i \in 1..Len(WORKSHOP_CHALLENGES) : WORKSHOP_CHALLENGES[i].id = challengeId
         action == IF ~known
                   THEN WorkshopAction("SET_ERROR", "", "Challenge not found")
                   ELSE IF ~isChallengeUnlocked(hookState.completedChallenges, challengeId)
                        THEN WorkshopAction("SET_ERROR", "", "Challenge is locked. Complete prerequisites first.")
                        ELSE WorkshopAction("NAVIGATE_TO_CHALLENGE", challengeId, "")
     IN  /\ ctxQueue' = Append(ctxQueue, action)
         /\ lastNav' = [called |-> TRUE, challengeId |-> challengeId,
                        completed |-> hookState.completedChallenges,
                        before |-> ReduceContext(ctx, ctxQueue),
                        after |-> ReduceContext(ctx, ctxQueue')]
  /\ UNCHANGED <<progressVars, ctx, ctxEffect>>

ContextNext ==
  \/ \E c \in {"", "TREASURY_MASTER"} : MountProvider(c) /\ UNCHANGED <<attemptVars, indicator, indicatorQueue>>
  \/ ProviderEffects /\ UNCHANGED <<attemptVars, indicator, indicatorQueue>>
  \/ ProviderRender /\ UNCHANGED <<attemptVars, indicator, indicatorQueue>>
  \/ \E c \in Playable :
       /\ queue = << >>
       /\ ~ctxEffect
       /\ HandlerComplete(c, "")
       /\ UNCHANGED <<attemptVars, viewVars>>
  \/ \E c \in NavigationTargets :
       navigateToChallenge(c) /\ UNCHANGED <<attemptVars, indicator, indicatorQueue>>

(***************************************************************************)
(* hooks/workshop/useAllNFTs.ts: useNFTFile, with a wallet connected.      *)
(***************************************************************************)
\* the commps the component passes, one per NFT
Commps == 1..3

NFTFileInit ==
  /\ commp = 0
  /\ fileData = [file |-> 0, isLoading |-> FALSE, error |-> ""]
  /\ downloads = << >>

\* a render with another commp: the effect runs again and, unless commp is empty, calls
\* fetchFile(), which sets isLoading and awaits the download
CommpChanges(c) ==
  /\ c # commp
  /\ commp' = c
  /\ IF c = 0
     THEN UNCHANGED <<fileData, downloads>>
     ELSE /\ Len(downloads) < MaxDownloads
          /\ fileData' = [fileData EXCEPT !.isLoading = TRUE, !.error = ""]
          /\ downloads' = Append(downloads, c)

Settled(i) == [j \in 1..(Len(downloads) - 1) |-> IF j < i THEN downloads[j] ELSE downloads[j + 1]]

\* synapse.storage.download(commp) of a fetchFile() in flight resolves: setFileData({file, ...})
DownloadResolves(i) ==
  /\ i \in 1..Len(downloads)
  /\ fileData' = [file |-> downloads[i], isLoading |-> FALSE, error |-> ""]
  /\ downloads' = Settled(i)
  /\ UNCHANGED commp

\* Synapse.create or the download of a fetchFile() in flight rejects
DownloadRejects(i) ==
  /\ i \in 1..Len(downloads)
  /\ fileData' = [fileData EXCEPT !.isLoading = FALSE, !.error = "Failed to fetch file"]
  /\ downloads' = Settled(i)
  /\ UNCHANGED commp

NFTFileNext ==
  \/ \E c \in Commps \cup {0} : CommpChanges(c)
  \/ \E i \in 1..MaxDownloads : DownloadResolves(i)
  \/ \E i \in 1..MaxDownloads : DownloadRejects(i)

(***************************************************************************)
(* <ProgressIndicator/>: a child of ChallengeSuccessEnhanced with its own  *)
(* instance of useChallengeVerification.  The passive effects of a child   *)
(* run before those of its parent, so its load effect reads localStorage   *)
(* before the save effect of the parent writes; both dispatches are        *)
(* reduced in the same re-render.                                          *)
(***************************************************************************)
ViewInit ==
  /\ indicator = InitialHookState
  /\ indicatorQueue = << >>
  /\ ContextInit
  /\ NFTFileInit

IndicatorNext ==
  \/ \E c \in Playable, h \in TxHashes :
       /\ MountSuccess(c, h)
       /\ indicator' = InitialHookState
       /\ indicatorQueue' = << >>
  \/ /\ Unmount
     /\ indicator' = InitialHookState
     /\ indicatorQueue' = << >>
  \/ /\ FlushEffects
     /\ indicatorQueue' =
          IF "load" \in effects
          THEN << [type |-> "LOAD_COMPLETE", completedChallenges |-> ProgressStorageGet,
                   attempts |-> IF lsAttempts.present THEN lsAttempts.attempts ELSE << >>] >>
          ELSE indicatorQueue
     /\ UNCHANGED indicator
  \/ /\ Render
     /\ indicator' = Reduce(indicator, indicatorQueue)
     /\ indicatorQueue' = << >>

(***************************************************************************)
(* Specifications.                                                         *)
(***************************************************************************)
\* the parts that are not running stay in their initial state
DecryptOff == variant = "challenge" /\ DecryptIdle

MintingOff ==
  /\ SelectInit /\ wallet = "" /\ ContractInit /\ NFTMinterInit /\ LitInit /\ EncMinterInit

mintingVars == <<selectVars, wallet, contractVars, nftMinterVars, litVars, encMinterVars>>

HooksOff == UploadInit /\ DatasetsInit /\ PaymentInit /\ AttemptsInit /\ ViewInit

hooksVars == <<uploadVars, datasetVars, paymentVars, attemptVars, viewVars>>

\* every component and hook in the state after its first render, the contracts as deployed
Init == ProgressInit /\ DecryptOff /\ MintingOff /\ HooksOff

Next == ProgressNext /\ UNCHANGED <<decryptVars, mintingVars, hooksVars>>

Spec == Init /\ [][Next]_vars

InitSave == SaveInit /\ DecryptOff /\ MintingOff /\ HooksOff

NextSave == SaveNext /\ UNCHANGED <<decryptVars, mintingVars, hooksVars>>

SpecSaveFair ==
  /\ InitSave /\ [][NextSave]_vars
  /\ WF_vars(FlushEffects /\ UNCHANGED <<decryptVars, mintingVars, hooksVars>>)
  /\ WF_vars(Render /\ UNCHANGED <<decryptVars, mintingVars, hooksVars>>)

InitDecrypt == DecryptInit /\ ProgressInit /\ MintingOff /\ HooksOff

NextDecrypt == DecryptNext /\ UNCHANGED <<progressVars, mintingVars, hooksVars>>

SpecDecrypt == InitDecrypt /\ [][NextDecrypt]_vars

NextNFT ==
  /\ NFTNext
  /\ UNCHANGED <<progressVars, decryptVars, hooksVars, litVars, mintType, accessAddresses, mPc,
                 mClosure, lastMint>>

SpecNFT == Init /\ [][NextNFT]_vars

NextSelect ==
  /\ SelectNext
  /\ UNCHANGED <<progressVars, decryptVars, hooksVars, litVars, mintType, accessAddresses, mPc,
                 mClosure, lastMint>>

SpecSelect == Init /\ [][NextSelect]_vars

NextEncMinter ==
  /\ EncMinterNext
  /\ UNCHANGED <<progressVars, decryptVars, hooksVars, contractVars, nftMinterVars>>

SpecEncMinter == Init /\ [][NextEncMinter]_vars

NextUpload ==
  /\ UploadNext
  /\ UNCHANGED <<progressVars, decryptVars, mintingVars, datasetVars, paymentVars, attemptVars, viewVars>>

SpecUpload == Init /\ [][NextUpload]_vars

NextDatasets ==
  /\ DatasetsNext
  /\ UNCHANGED <<progressVars, decryptVars, mintingVars, uploadVars, paymentVars, attemptVars, viewVars>>

SpecDatasets == Init /\ [][NextDatasets]_vars

NextPayment ==
  /\ PaymentNext
  /\ UNCHANGED <<progressVars, decryptVars, mintingVars, uploadVars, datasetVars, attemptVars, viewVars>>

SpecPayment == Init /\ [][NextPayment]_vars

NextFlag ==
  /\ FlagNext
  /\ UNCHANGED <<decryptVars, mintingVars, uploadVars, datasetVars, paymentVars, viewVars>>

SpecFlag == Init /\ [][NextFlag]_vars

NextLegacy ==
  /\ LegacyNext
  /\ UNCHANGED <<decryptVars, mintingVars, uploadVars, datasetVars, paymentVars, viewVars>>

SpecLegacy == Init /\ [][NextLegacy]_vars

NextReset ==
  /\ ResetNext
  /\ UNCHANGED <<decryptVars, mintingVars, uploadVars, datasetVars, paymentVars, viewVars>>

SpecReset == Init /\ [][NextReset]_vars

NextIndicator ==
  /\ IndicatorNext
  /\ UNCHANGED <<decryptVars, mintingVars, uploadVars, datasetVars, paymentVars, attemptVars,
                 contextVars, nftFileVars>>

SpecIndicator == Init /\ [][NextIndicator]_vars

NextContext ==
  /\ ContextNext
  /\ UNCHANGED <<decryptVars, mintingVars, uploadVars, datasetVars, paymentVars, nftFileVars>>

SpecContext == Init /\ [][NextContext]_vars

NextNFTFile ==
  /\ NFTFileNext
  /\ UNCHANGED <<progressVars, decryptVars, mintingVars, uploadVars, datasetVars, paymentVars,
                 attemptVars, indicator, indicatorQueue, contextVars>>

SpecNFTFile == Init /\ [][NextNFTFile]_vars

(***************************************************************************)
(* Claims about the progress record.                                       *)
(***************************************************************************)
\* C1: whenever completeChallenge(c) resolves, the record persisted in localStorage
\* lists c together with every challenge that was persisted before the call.
C1_NoProgressLost ==
  callLog.called => ({callLog.challengeId} \cup callLog.before) \subseteq callLog.after

\* C2: every challenge recorded in completedChallenges has all of its prerequisites
\* recorded there as well.
C2_PrerequisitesRecorded ==
  \A c \in Range(hookState.completedChallenges) :
    Range(FindChallenge(c).prerequisites) \subseteq Range(hookState.completedChallenges)

\* C8: for fixed props ChallengeSuccessEnhanced eventually reaches a state in which
\* no save is scheduled and no dispatched action waits for a render, and stays there.
C8_SaveQuiesces == <>[](effects = {} /\ queue = << >>)

TypeOK ==
  /\ lsProgress.present \in BOOLEAN
  /\ Range(lsProgress.completedChallenges) \subseteq ChallengeType \cup {NumberEntry(n) : n \in 1..5}
  /\ mounted \in {"none", "success", "consumer"}
  /\ effects \subseteq {"load", "save"}
  /\ Len(queue) <= MaxQueue + 1

(***************************************************************************)
(* Claims about NFTDecryptor.                                              *)
(***************************************************************************)
\* C3: a step of NFTDecryptor starts a download only as handleDecrypt(nft) with a
\* wallet connected, nft.hasAccess true and the connected address equal to nft.owner
\* up to letter case; the decrypted file is only ever set by a download that resolves.
C3_DecryptOnlyWithAccess ==
  [][ /\ Len(pending') > Len(pending) =>
           /\ address.defined /\ address.chars # << >>
           /\ selectedNFT'.set
           /\ pending' = Append(pending, selectedNFT'.nft.tokenPieceCid)
           /\ selectedNFT'.nft.hasAccess
           /\ selectedNFT'.nft.owner.defined
           /\ Len(selectedNFT'.nft.owner.chars) = Len(address.chars)
           /\ \A i \in 1..Len(address.chars) :
                LowerChar(selectedNFT'.nft.owner.chars[i]) = LowerChar(address.chars[i])
      /\ (decryptedFile'.set /\ decryptedFile' # decryptedFile) =>
           /\ Len(pending') < Len(pending)
           /\ Includes(pending, decryptedFile'.commp) ]_vars

\* C3 witness: the file of an NFT was decrypted for a wallet whose address differs in
\* letter case from the recorded owner, and a later click without access was refused
C3_Witness ==
  /\ decryptedFile.set
  /\ selectedNFT.set /\ selectedNFT.nft.owner # address /\ MayDecrypt(selectedNFT.nft, address)
  /\ variant = "solution" /\ decryptError = "Access denied"


(***************************************************************************)
(* Claims about NFTContract and file selection.                            *)
(***************************************************************************)
\* C5: after the mint calls recorded in mintLog, token ids 1..n were assigned in call
\* order, getTotalSupply() is n, tokenURI(k) is the content identifier of the k-th
\* call; the step of the k-th call makes the k-th caller the owner of token k and
\* changes no token URI of an earlier token.
C5_MintBookkeeping ==
  /\ [](/\ getTotalSupply = Len(mintLog)
        /\ \A k \in 1..Len(mintLog) : tokenURI(k) = mintLog[k].cid
        /\ \A k \in TokenIds : k > Len(mintLog) => tokenURI(k) = "" /\ owners[k] = "")
  /\ [][Len(mintLog') > Len(mintLog) =>
          /\ Len(mintLog') = Len(mintLog) + 1
          /\ owners'[Len(mintLog')] = mintLog'[Len(mintLog')].caller
          /\ \A k \in 1..Len(mintLog) : tokenURIs'[k] = tokenURIs[k] /\ owners'[k] = owners[k]]_vars

\* C5 witness: three mints by two callers, two of them of the same content identifier,
\* and the first token has changed hands since
C5_Witness ==
  /\ Len(mintLog) = 3
  /\ mintLog[1].caller # mintLog[2].caller
  /\ mintLog[1].cid = mintLog[3].cid /\ mintLog[1].cid # mintLog[2].cid
  /\ owners[1] # mintLog[1].caller
  /\ nMinted

\* C4: for the last NFT minted through EncryptedNFTMinter with private access, the
\* access condition of its file checks hasAccess for the token id of that NFT, and
\* every account that can decrypt the file is one of the addresses given for that NFT.
C4_ConditionNamesMintedToken ==
  (lastMint.called /\ lastMint.mintType = "private") =>
    /\ encFiles[lastMint.cid] = lastMint.tokenId
    /\ \A a \in Accounts : CanDecrypt(lastMint.cid, a) => a \in lastMint.addresses

\* C7: a file is the selected file of FileUpload, NFTMinter or EncryptedNFTMinter only
\* if its size is less than 100MB.
C7_SelectedBelowLimit ==
  \A comp \in Components :
    selectedFile[comp] # NoFileSize => selectedFile[comp] < 100 * 1024 * 1024

(***************************************************************************)
(* Claims about useFileUploadEnhanced.                                     *)
(***************************************************************************)
\* C6: once cancelUpload was called while an upload was in progress, progressState is
\* never 'uploading', 'processing' or 'completed' for that upload, and uploadFile
\* does not resolve with a result.
C6_CancelAborts ==
  cancelled =>
    /\ progressState.status \notin {"uploading", "processing", "completed"}
    /\ upPc # "resolved"

(***************************************************************************)
(* Claims about the solution useDatasets.                                  *)
(***************************************************************************)
\* C9: once the provider ids and the datasets were fetched, no step of the query fails
\* it, and when it succeeds its result has exactly one entry per dataset, in the
\* order of the datasets, each with the basic info of its dataset and with piece
\* data exactly if its detail fetch succeeded.
C9_PartialFailuresTolerated ==
  /\ [](dsPc = "success" =>
          /\ Len(dsResult) = Len(dsLists.datasets)
          /\ \A k \in 1..Len(dsResult) :
                /\ dsResult[k].defined
                /\ dsResult[k].dataset = dsLists.datasets[k]
                /\ dsResult[k].hasData = (detOut[k] = "ok"))
  /\ [][(dsPc = "providers" \/ dsPc = "details") => dsPc' # "error"]_vars

\* C9 witness: the query succeeded for two datasets listed in descending id order
\* although a provider-info fetch and the detail fetch of the first dataset failed
C9_Witness ==
  /\ dsPc = "success"
  /\ Len(dsResult) = 2
  /\ dsLists.datasets[1].pdpVerifierDataSetId > dsLists.datasets[2].pdpVerifierDataSetId
  /\ \E i \in 1..Len(provOut) : provOut[i] = "failed"
  /\ detOut[1] = "failed" /\ detOut[2] = "ok"
  /\ ~dsResult[1].hasData /\ dsResult[2].hasData

(***************************************************************************)
(* Claims about the solution usePayment.                                   *)
(***************************************************************************)
\* C10: the transactions of the running payment are sent in the order USDFC approval,
\* deposit, service approval, each at most once and each only after the one before
\* it was confirmed; the approval only with an allowance below MAX_UINT256 / 2 and
\* the deposit only with depositAmount plus fee above 0; and a step sets success
\* or transactionHash only when it confirms the service approval.
C10_TransactionsOrdered ==
  /\ [](LET Rank(kind) == CASE kind = "approve" -> 1 [] kind = "deposit" -> 2 [] OTHER -> 3
        IN  /\ \A i, j \in 1..Len(txLog) : i < j => Rank(txLog[i].kind) < Rank(txLog[j].kind)
            /\ \A i \in 1..Len(txLog) : i < Len(txLog) => txLog[i].confirmed
            /\ \A i \in 1..Len(txLog) :
                  /\ txLog[i].kind = "approve" => 2 * payLocal.allowance < MAX_UINT256 - 1
                  /\ txLog[i].kind = "deposit" => payLocal.depositAmount + payLocal.fee > 0)
  /\ [][(success' # success \/ payTxHash' # payTxHash) =>
          /\ txLog' # << >>
          /\ txLog'[Len(txLog')] = [kind |-> "approveService", confirmed |-> TRUE]
          /\ ~txLog[Len(txLog')].confirmed
          /\ success' /\ payTxHash' # 0]_vars

\* C10 witness: a payment that needed all three transactions has succeeded
C10_Witness ==
  /\ payPc = "done" /\ success /\ payTxHash # 0
  /\ Len(txLog) = 3
  /\ \A i \in 1..3 : txLog[i].confirmed

C12_TreasuryFlagValid ==
  (lastValidation.called /\ lastValidation.challengeId = "TREASURY_MASTER"
     /\ lastValidation.flag \in {TxHashFlag, AbbreviatedFlag}) => lastValidation.valid

\* C13: when the hook has loaded the record that is in localStorage, then for every
\* challenge number n and its ChallengeType c, isChallengeCompleted(n) is true exactly
\* when getChallengeStatus(c).status is 'completed'.
C13_ApisAgree ==
  (mounted = "consumer" /\ ~hookState.isLoading /\ queue = << >> /\ effects = {}
     /\ hookState.completedChallenges = ProgressStorageGet) =>
    \A n \in 1..MaxChallenge :
      isChallengeCompleted(n) <=>
        getChallengeStatus(hookState.completedChallenges, WORKSHOP_CHALLENGES[n].id).status = "completed"

\* C14: when resetProgress was the last call, every timer has run and the hook has
\* rendered, localStorage holds no progress record, no attempts record and no
\* per-challenge transaction hash, and the hook's completedChallenges and attempts are
\* empty with isSaving false.
C14_ResetClearsAll ==
  (resetResolved /\ timers = << >> /\ queue = << >> /\ effects = {}) =>
    /\ ~lsProgress.present
    /\ ~lsAttempts.present
    /\ \A c \in ChallengeType : lsTx[c] = ""
    /\ \A n \in 1..5 : lsLegacyTx[n] = ""
    /\ hookState.completedChallenges = << >>
    /\ hookState.attempts = << >>
    /\ ~hookState.isSaving

\* C15: once ChallengeSuccessEnhanced has saved its challenge and the ProgressIndicator
\* inside it has loaded, the indicator counts that challenge as completed and reports
\* the completedChallenges persisted in localStorage.
C15_IndicatorUpToDate ==
  (mounted = "success" /\ ~indicator.isLoading /\ indicatorQueue = << >>) =>
    /\ getChallengeStatus(indicator.completedChallenges, propChallenge).status = "completed"
    /\ indicator.completedChallenges = ProgressStorageGet

\* C16: a call navigateToChallenge(c) makes c the current challenge and clears ui.error
\* when c is a defined challenge that is completed or has all its prerequisites
\* completed; otherwise it leaves currentChallenge unchanged and sets ui.error.
C16_NavigationGuarded ==
  lastNav.called =>
    LET c == lastNav.challengeId
        defined == {i \in 1..Len(WORKSHOP_CHALLENGES) : WORKSHOP_CHALLENGES[i].id = c}
        done(x) == \E k \in 1..Len(lastNav.completed) : lastNav.completed[k] = x
        unlocked == \E i \in defined :
                      \/ done(c)
                      \/ \A j \in 1..Len(WORKSHOP_CHALLENGES[i].prerequisites) :
                            done(WORKSHOP_CHALLENGES[i].prerequisites[j])
    IN  IF unlocked
        THEN lastNav.after.currentChallenge = c /\ lastNav.after.error = ""
        ELSE /\ lastNav.after.currentChallenge = lastNav.before.currentChallenge
             /\ lastNav.after.error # ""

\* a locked challenge was refused while another challenge was current
C16_Witness ==
  /\ lastNav.called
  /\ lastNav.challengeId \in Playable
  /\ lastNav.before.currentChallenge \in Playable
  /\ lastNav.after.currentChallenge = lastNav.before.currentChallenge
  /\ lastNav.after.currentChallenge # lastNav.challengeId
  /\ lastNav.after.error # ""

\* C17: for the completedChallenges of the hook, getChallengeStatus(c) is 'completed'
\* exactly when c is among them; otherwise it is 'locked', naming the first prerequisite
\* of c that is not completed, exactly when some prerequisite of c is not completed;
\* otherwise it is 'not_started'.  isChallengeUnlocked(c) is true exactly when the
\* status is not 'locked'.
C17_StatusByPrerequisites ==
  \A i \in 1..Len(WORKSHOP_CHALLENGES) :
    LET ch      == WORKSHOP_CHALLENGES[i]
        done    == Range(hookState.completedChallenges)
        st      == getChallengeStatus(hookState.completedChallenges, ch.id)
        missing == {j \in 1..Len(ch.prerequisites) : ch.prerequisites[j] \notin done}
    IN  /\ st.status \in {"completed", "locked", "not_started"}
        /\ st.status = "completed" <=> ch.id \in done
        /\ st.status = "locked" <=> (ch.id \notin done /\ missing # {})
        /\ st.status = "locked" =>
             \E j \in missing : /\ st.prerequisiteChallenge = ch.prerequisites[j]
                                 /\ \A k \in missing : j <= k
        /\ isChallengeUnlocked(hookState.completedChallenges, ch.id) <=> st.status # "locked"

\* the hook holds a progress in which the three statuses occur
C17_Witness ==
  /\ getChallengeStatus(hookState.completedChallenges, "TREASURY_MASTER").status = "completed"
  /\ getChallengeStatus(hookState.completedChallenges, "STORAGE_SENTINEL").status = "not_started"
  /\ getChallengeStatus(hookState.completedChallenges, "DATA_GUARDIAN").status = "locked"
  /\ getChallengeStatus(hookState.completedChallenges, "DATA_GUARDIAN").prerequisiteChallenge
       = "STORAGE_SENTINEL"

\* C18: once every download of useNFTFile has settled and fileData holds a file without
\* an error, the file is the one of the latest commp.
C18_LatestFileShown ==
  (downloads = << >> /\ commp # 0 /\ fileData.error = "" /\ fileData.file # 0) =>
    fileData.file = commp

\* C19: while the mintPrivate call of EncryptedNFTMinter is under way, the file has been
\* encrypted and uploaded, the first argument is the piece CID of that upload, and the
\* second is exactly the non-blank addresses of the list the handler was started with,
\* at least one of them for a private mint.
C19_MintPrivateArguments ==
  mPc = "minting" =>
    LET entered  == mClosure.accessAddresses
        nonBlank == SelectSeq(entered, LAMBDA a : a # "")
    IN  /\ mClosure.pieceCid \in 1..Len(encFiles)
        /\ mClosure.pieceCid = Len(encFiles)
        /\ entered = nonBlank
        /\ mClosure.mintType = "private" => nonBlank # << >>

====
